---------------------------- MODULE Spec2Model ----------------------------
(***************************************************************************)
(* chidley: the driver (chidley.go) as a state machine.  main parses the   *)
(* flags, picks one input source, runs the Extractor over the token        *)
(* stream, and hands the finished tree to the emitter the switch selects.  *)
(* The Extractor, the visitors and the writers live outside chidley.go;    *)
(* they are modelled from the design document (sections 3, 4.1, 4.2, 4.3)  *)
(* and from the way main calls them.                                       *)
(***************************************************************************)
EXTENDS Integers, Sequences, FiniteSets, TLC

(* ------------------------------ bounds -------------------------------- *)

\* Longest document (in events) main is run on in Spec.
MaxEventsMain == 3
\* Longest document (in events) in EmitSpec.
MaxEvents == 6
\* Most positional arguments on the command line.
MaxArgs == 2
\* Most text values given to one element identity in TypeSpec.
MaxTexts == 3
\* Longest document (in events) in FairChanSpec.
MaxEventsChan == 2
\* Most lines one rendered struct takes in FairChanSpec.
MaxStructLines == 51

(* --------------------------- program constants ------------------------ *)

\* lineChannel := make(chan string, 100)
LineChannelCap == 100

(* ------------------------------ inputs -------------------------------- *)

\* Element identities (local name, namespace) the documents are built from.
Tags == { <<"a", "">>, <<"b", "">>, <<"a", "n">> }

\* Literal texts, as character sequences.
TxtEmpty == << >>
TxtBlank == << " " >>
TxtTrue == << "t", "r", "u", "e" >>
TxtFalse == << "f", "a", "l", "s", "e" >>
TxtOne == << "1" >>
TxtNeg == << "-", "1", "2" >>
TxtDec == << "1", ".", "5" >>
TxtExp == << "-", "0", ".", "5", "e", "3" >>
TxtWord == << "h", "i" >>
TxtDots == << "1", ".", "2", ".", "3" >>

Texts ==
    { TxtEmpty, TxtBlank, TxtTrue, TxtFalse, TxtOne, TxtNeg, TxtDec, TxtExp,
      TxtWord, TxtDots }

StartEvent(tag) == [type |-> "start", name |-> tag[1], space |-> tag[2], text |-> << >>]
EndEvent == [type |-> "end", name |-> "", space |-> "", text |-> << >>]
TextEvent(t) == [type |-> "text", name |-> "", space |-> "", text |-> t]

\* The tag events, and the events of the small documents: the tags and one text.
TagEvents == { StartEvent(t) : t \in Tags } \cup { EndEvent }
Events == TagEvents \cup { TextEvent(TxtOne) }

Depth(s, i) ==
    Cardinality({ j \in 1..i : s[j].type = "start" })
        - Cardinality({ j \in 1..i : s[j].type = "end" })

\* Event sequences of at most n events.  An end tag with nothing open, which
\* stops the walk, can only be the last event; open elements may be left
\* unterminated.
DocsUpTo(n, events) ==
    UNION { { s \in [1..k -> events] : \A i \in 0..(k - 1) : Depth(s, i) >= 0 }
            : k \in 0..n }

ArgLists == { s \in { << >>, << "f1" >>, << "f1", "f2" >>, << "f1", "f2", "f3" >> }
              : Len(s) <= MaxArgs }

(* ------------------------------- state -------------------------------- *)

VARIABLES
    \* the command line and the environment
    codeGenConvert, structsToStdout, writeJava, url, readFromStandardIn,
    useType, args, doc, linesPerStruct,
    \* main
    pc, log, sourceName, source, emitterRuns, branch,
    \* Extractor
    pos, stack, nodes, firstNode, extractErr,
    \* struct visitor, line channel and writer
    alreadyVisited, emitted, pending, sent, lineChannel, chanClosed,
    writerState, sink, structsRead, oneLevelDown, templateRuns,
    \* Java emitter
    javaOrder, onlyChild, baseDir, fsLog

inputVars ==
    << codeGenConvert, structsToStdout, writeJava, url, readFromStandardIn,
       useType, args, doc, linesPerStruct >>
mainVars == << pc, log, sourceName, source, emitterRuns, branch >>
extractorVars == << pos, stack, nodes, firstNode, extractErr >>
goVars ==
    << alreadyVisited, emitted, pending, sent, lineChannel, chanClosed,
       writerState, sink, structsRead, oneLevelDown, templateRuns >>
javaVars == << javaOrder, onlyChild, baseDir, fsLog >>
vars == << inputVars, mainVars, extractorVars, goVars, javaVars >>

\* The synthetic root the Extractor starts from: node 1, never an element.
RootNode ==
    [name |-> "root", space |-> "", count |-> 0, children |-> << >>,
     textObserved |-> FALSE, type |-> "absent"]

\* The state before main runs, for a given command line and document.
Start ==
    /\ pc = "start"
    /\ log = << >>
    /\ sourceName = ""
    /\ source = [kind |-> "none", name |-> ""]
    /\ emitterRuns = 0
    /\ branch = "none"
    /\ pos = 0
    /\ stack = << 1 >>
    /\ nodes = << RootNode >>
    /\ firstNode = 0
    /\ extractErr = "pending"
    /\ alreadyVisited = {}
    /\ emitted = << >>
    /\ pending = << >>
    /\ sent = << >>
    /\ lineChannel = << >>
    /\ chanClosed = FALSE
    /\ writerState = "unopened"
    /\ sink = << >>
    /\ structsRead = [read |-> FALSE, s |-> << >>]
    /\ oneLevelDown = << >>
    /\ templateRuns = 0
    /\ javaOrder = << >>
    /\ onlyChild = 0
    /\ baseDir = "original"
    /\ fsLog = << >>

\* Every command line over the three mode flags, -u, -c and the positional
\* arguments, on every small document.
Init ==
    /\ codeGenConvert \in BOOLEAN
    /\ structsToStdout \in BOOLEAN
    /\ writeJava \in BOOLEAN
    /\ url \in BOOLEAN
    /\ readFromStandardIn \in BOOLEAN
    /\ useType = TRUE
    /\ args \in ArgLists
    /\ doc \in DocsUpTo(MaxEventsMain, Events)
    /\ linesPerStruct = 1
    /\ Start

(* ------------------------- main, up to extract ------------------------ *)

RECURSIVE countNumberOfBoolsSet(_)
countNumberOfBoolsSet(a) ==
    IF a = << >> THEN 0
    ELSE (IF Head(a) THEN 1 ELSE 0) + countNumberOfBoolsSet(Tail(a))

outputs == << codeGenConvert, structsToStdout, writeJava >>

\* What handleParameters logs.
handleParametersLog ==
    LET numBoolsSet == countNumberOfBoolsSet(outputs) IN
    IF numBoolsSet > 1 THEN << "ERROR: Only one of -W -J -X -V -c can be set" >>
    ELSE IF numBoolsSet = 0
        THEN << "ERROR: At least one of -W -J -X -V -c must be set" >>
        ELSE << >>

\* What handleParameters returns: nil on every path.
handleParametersErr == "nil"

\* err := handleParameters(); if err != nil { flag.Usage(); return }
HandleParameters ==
    /\ pc = "start"
    /\ log' = log \o handleParametersLog
    /\ pc' = IF handleParametersErr /= "nil" THEN "usage" ELSE "checkArgs"
    /\ UNCHANGED << inputVars, sourceName, source, emitterRuns, branch,
                    extractorVars, goVars, javaVars >>

\* if len(flag.Args()) != 1 && !readFromStandardIn { usage; return }
CheckArgs ==
    /\ pc = "checkArgs"
    /\ IF Len(args) /= 1 /\ ~readFromStandardIn
        THEN /\ pc' = "usage"
             /\ log' = Append(log, "chidley <flags> xmlFileName|url")
        ELSE /\ pc' = "sourceName"
             /\ log' = log
    /\ UNCHANGED << inputVars, sourceName, source, emitterRuns, branch,
                    extractorVars, goVars, javaVars >>

\* filepath.Abs of a relative name.
Abs(name) == "/cwd/" \o name

\* sourceName = flag.Args()[0] unless -c; made absolute unless -u or -c.
\* Indexing an empty argument list panics; filepath.Abs can fail.
ResolveSourceName ==
    /\ pc = "sourceName"
    /\ IF ~readFromStandardIn /\ Len(args) = 0
        THEN /\ pc' = "panic"
             /\ UNCHANGED << sourceName, log >>
        ELSE LET name == IF ~readFromStandardIn THEN args[1] ELSE "" IN
             IF ~url /\ ~readFromStandardIn
             THEN \/ /\ sourceName' = Abs(name)
                     /\ pc' = "makeSource"
                     /\ log' = log
                  \/ /\ sourceName' = name
                     /\ pc' = "fatal"
                     /\ log' = Append(log, "FATAL ERROR: Abs")
             ELSE /\ sourceName' = name
                  /\ pc' = "makeSource"
                  /\ log' = log
    /\ UNCHANGED << inputVars, source, emitterRuns, branch,
                    extractorVars, goVars, javaVars >>

\* The Source makeSourceReader builds: -u first, then -c, else a file.
makeSourceReader(name, isUrl, standardIn) ==
    [kind |-> IF isUrl THEN "UrlSource"
              ELSE IF standardIn THEN "StdinSource" ELSE "FileSource",
     name |-> name]

\* source, err := makeSourceReader(...); newSource may fail, which is fatal.
MakeSourceReader ==
    /\ pc = "makeSource"
    /\ source' = makeSourceReader(sourceName, url, readFromStandardIn)
    /\ \/ /\ pc' = "extract"
          /\ log' = log
       \/ /\ pc' = "fatal"
          /\ log' = Append(log, "FATAL ERROR: newSource")
    /\ UNCHANGED << inputVars, sourceName, emitterRuns, branch,
                    extractorVars, goVars, javaVars >>

(* ----------------------------- Type Sniffer --------------------------- *)

Digits == { "0", "1", "2", "3", "4", "5", "6", "7", "8", "9" }

AllDigits(t) == Len(t) > 0 /\ \A i \in 1..Len(t) : t[i] \in Digits

StripSign(t) == IF Len(t) > 0 /\ t[1] \in { "+", "-" } THEN Tail(t) ELSE t

IsBlank(t) == \A i \in 1..Len(t) : t[i] = " "

IsBoolean(t) == t \in { TxtTrue, TxtFalse }

IsInteger(t) == AllDigits(StripSign(t))

\* Optional sign, digits around a single decimal point, optional exponent.
IsDecimal(t) ==
    LET body == StripSign(t)
        exps == { i \in 1..Len(body) : body[i] \in { "e", "E" } }
        cut == IF exps = {} THEN Len(body) + 1 ELSE CHOOSE i \in exps : TRUE
        mantissa == SubSeq(body, 1, cut - 1)
        exponent == SubSeq(body, cut + 1, Len(body))
        points == { i \in 1..Len(mantissa) : mantissa[i] = "." }
    IN  /\ Cardinality(exps) <= 1
        /\ Cardinality(points) = 1
        /\ \A i \in (1..Len(mantissa)) \ points : mantissa[i] \in Digits
        /\ \E i \in 1..Len(mantissa) : mantissa[i] \in Digits
        /\ exps /= {} => IsInteger(exponent)

\* classify(text): blank, then boolean, integer, decimal, else string.
Classify(t) ==
    IF IsBlank(t) THEN "string"
    ELSE IF IsBoolean(t) THEN "boolean"
    ELSE IF IsInteger(t) THEN "integer"
    ELSE IF IsDecimal(t) THEN "decimal"
    ELSE "string"

\* Mutant of MergeType: the latest classification wins.
MergeType_lastWins(running, class) == class

\* Conservative merge of the running type with one more classification.
MergeType(running, class) ==
    IF running = "absent" THEN class
    ELSE IF running = class THEN running
    ELSE "string"

(* ------------------------------ Extractor ----------------------------- *)

NewNode(name, space) ==
    [name |-> name, space |-> space, count |-> 0, children |-> << >>,
     textObserved |-> FALSE, type |-> "absent"]

Range(f) == { f[i] : i \in DOMAIN f }

\* The node key the attribute map and the visited set are keyed by.
nk(n) == << n.name, n.space >>

\* Mutant of LocateOrCreate: an identity not yet a child of this parent
\* always gets a new node, even when another parent already holds one.
LocateOrCreate_perParent(ns, top, name, space) ==
    LET kids == { c \in Range(ns[top].children) : nk(ns[c]) = << name, space >> }
    IN  IF kids /= {}
        THEN [nodes |-> ns, id |-> CHOOSE c \in kids : TRUE]
        ELSE [nodes |-> Append([ns EXCEPT ![top].children = Append(@, Len(ns) + 1)],
                               NewNode(name, space)),
              id |-> Len(ns) + 1]

\* Locate or create the child entry (name, space) under node top: the
\* entry itself, else the Element Node of that identity, else a new node.
LocateOrCreate(ns, top, name, space) ==
    LET kids == { c \in Range(ns[top].children) : nk(ns[c]) = << name, space >> }
        known == { i \in 2..Len(ns) : nk(ns[i]) = << name, space >> }
    IN  IF kids /= {}
        THEN [nodes |-> ns, id |-> CHOOSE c \in kids : TRUE]
        ELSE IF known /= {}
        THEN LET id == CHOOSE i \in known : TRUE IN
             [nodes |-> [ns EXCEPT ![top].children = Append(@, id)], id |-> id]
        ELSE [nodes |-> Append([ns EXCEPT ![top].children = Append(@, Len(ns) + 1)],
                               NewNode(name, space)),
              id |-> Len(ns) + 1]

\* Mutant of AfterExtract: the error is dropped and main goes on.
AfterExtract_ignoresError(err) == "switch"

\* What main does with extract's result: log.Fatal on an error.
AfterExtract(err) == IF err /= "nil" THEN "fatal" ELSE "switch"

Top == stack[Len(stack)]

\* Start tag: locate or create the child under the stack top, count it,
\* push it; the first element seen is remembered.
HandleStartElement ==
    /\ pc = "extract"
    /\ pos < Len(doc)
    /\ doc[pos + 1].type = "start"
    /\ LET e == doc[pos + 1]
           r == LocateOrCreate(nodes, Top, e.name, e.space)
       IN  /\ nodes' = [r.nodes EXCEPT ![r.id].count = @ + 1]
           /\ stack' = Append(stack, r.id)
           /\ firstNode' = IF firstNode = 0 THEN r.id ELSE firstNode
    /\ pos' = pos + 1
    /\ UNCHANGED << inputVars, mainVars, extractErr, goVars, javaVars >>

\* Character data: marks the stack top and merges the text's class.
HandleCharData ==
    /\ pc = "extract"
    /\ pos < Len(doc)
    /\ doc[pos + 1].type = "text"
    /\ nodes' = [nodes EXCEPT
                   ![Top].textObserved = TRUE,
                   ![Top].type = IF useType
                                 THEN MergeType(@, Classify(doc[pos + 1].text))
                                 ELSE @]
    /\ pos' = pos + 1
    /\ UNCHANGED << inputVars, mainVars, stack, firstNode, extractErr,
                    goVars, javaVars >>

\* End tag: pop; with nothing open the document is unbalanced.
HandleEndElement ==
    /\ pc = "extract"
    /\ pos < Len(doc)
    /\ doc[pos + 1].type = "end"
    /\ pos' = pos + 1
    /\ IF Len(stack) > 1
       THEN /\ stack' = SubSeq(stack, 1, Len(stack) - 1)
            /\ UNCHANGED << extractErr, pc, log >>
       ELSE /\ extractErr' = "unbalanced"
            /\ pc' = AfterExtract("unbalanced")
            /\ log' = IF AfterExtract("unbalanced") = "fatal"
                      THEN Append(log, "FATAL ERROR: extract") ELSE log
            /\ UNCHANGED stack
    /\ UNCHANGED << inputVars, sourceName, source, emitterRuns, branch,
                    nodes, firstNode, goVars, javaVars >>

\* End of the stream: an element still open is an error, else extract
\* returns nil.
EndOfStream ==
    /\ pc = "extract"
    /\ pos = Len(doc)
    /\ LET err == IF Len(stack) > 1 THEN "unterminated" ELSE "nil" IN
       /\ extractErr' = err
       /\ pc' = AfterExtract(err)
       /\ log' = IF AfterExtract(err) = "fatal"
                 THEN Append(log, "FATAL ERROR: extract") ELSE log
    /\ UNCHANGED << inputVars, sourceName, source, emitterRuns, branch,
                    pos, stack, nodes, firstNode, goVars, javaVars >>

(* --------------------------- emitter visitors ------------------------- *)

\* The orders a range over a children collection can take.
RangeOrders(children) ==
    { p \in [1..Len(children) -> Range(children)] :
        \A i, j \in 1..Len(children) : i /= j => p[i] /= p[j] }

\* Visit(node): a node whose key is in the visited set is skipped; otherwise
\* it is marked, its definition is emitted and its children are visited.
\* The result is every (emitted nodes, visited set) some range order gives.
RECURSIVE VisitNode(_, _, _), VisitChildren(_, _, _)
VisitNode(ns, id, visited) ==
    IF nk(ns[id]) \in visited
    THEN { [seq |-> << >>, visited |-> visited] }
    ELSE { [seq |-> << id >> \o r.seq, visited |-> r.visited] :
             r \in VisitChildren(ns, Range(ns[id].children),
                                 visited \cup { nk(ns[id]) }) }
VisitChildren(ns, remaining, visited) ==
    IF remaining = {}
    THEN { [seq |-> << >>, visited |-> visited] }
    ELSE UNION { UNION { { [seq |-> f.seq \o r.seq, visited |-> r.visited] :
                             r \in VisitChildren(ns, remaining \ { c }, f.visited) }
                         : f \in VisitNode(ns, c, visited) }
                 : c \in remaining }

\* The lines one struct definition is rendered as.
StructLines(n, k) == [j \in 1..k |-> << n.name, n.space, j >>]

RECURSIVE LinesOf(_, _, _)
LinesOf(ns, seq, k) ==
    IF seq = << >> THEN << >>
    ELSE StructLines(ns[Head(seq)], k) \o LinesOf(ns, Tail(seq), k)

\* The case the switch takes: the first flag set, in the order -W, -G, -J.
selectCase ==
    IF codeGenConvert THEN "W"
    ELSE IF structsToStdout THEN "G"
    ELSE IF writeJava THEN "J"
    ELSE "none"

\* switch { case codeGenConvert: ... case structsToStdout: ... case writeJava: ... }
SelectEmitter ==
    /\ pc = "switch"
    /\ branch' = selectCase
    /\ emitterRuns' = IF selectCase = "none" THEN emitterRuns ELSE emitterRuns + 1
    /\ pc' = CASE selectCase \in { "W", "G" } -> "open"
               [] selectCase = "J" -> "J_remove"
               [] OTHER -> "done"
    /\ UNCHANGED << inputVars, log, sourceName, source, extractorVars,
                    goVars, javaVars >>

(* ------------------- struct modes: channel and writer ------------------ *)

\* writer.open("", lineChannel): the writer starts receiving from the channel.
OpenWriter ==
    /\ pc = "open"
    /\ writerState' = "running"
    /\ pc' = "visit"
    /\ UNCHANGED << inputVars, log, sourceName, source, emitterRuns, branch,
                    extractorVars, alreadyVisited, emitted, pending, sent,
                    lineChannel, chanClosed, sink, structsRead, oneLevelDown,
                    templateRuns, javaVars >>

\* printGoStructVisitor.init(...); Visit(ex.root) starts: the traversal fixes
\* the definitions and so the lines the visitor will send.
VisitBegin ==
    /\ pc = "visit"
    /\ \E r \in VisitNode(nodes, 1, {}) :
         /\ emitted' = r.seq
         /\ alreadyVisited' = r.visited
         /\ pending' = LinesOf(nodes, r.seq, linesPerStruct)
    /\ pc' = "send"
    /\ UNCHANGED << inputVars, log, sourceName, source, emitterRuns, branch,
                    extractorVars, sent, lineChannel, chanClosed, writerState,
                    sink, structsRead, oneLevelDown, templateRuns, javaVars >>

\* The visitor sends its next line: it waits while the channel is full, and
\* a send on a closed channel panics.
VisitorSend ==
    /\ pc = "send"
    /\ pending /= << >>
    /\ chanClosed \/ Len(lineChannel) < LineChannelCap
    /\ IF chanClosed
       THEN /\ pc' = "panic"
            /\ UNCHANGED << pending, sent, lineChannel >>
       ELSE /\ lineChannel' = Append(lineChannel, Head(pending))
            /\ sent' = Append(sent, Head(pending))
            /\ pending' = Tail(pending)
            /\ pc' = pc
    /\ UNCHANGED << inputVars, log, sourceName, source, emitterRuns, branch,
                    extractorVars, alreadyVisited, emitted, chanClosed,
                    writerState, sink, structsRead, oneLevelDown, templateRuns,
                    javaVars >>

\* Visit(ex.root) returns once every line is sent.
VisitReturn ==
    /\ pc = "send"
    /\ pending = << >>
    /\ pc' = "closeChan"
    /\ UNCHANGED << inputVars, log, sourceName, source, emitterRuns, branch,
                    extractorVars, goVars, javaVars >>

\* Mutant of CloseChannel: the channel is closed before Visit is called.
CloseChannel_beforeVisit ==
    /\ pc = "visit"
    /\ ~chanClosed
    /\ chanClosed' = TRUE
    /\ pc' = pc
    /\ UNCHANGED << inputVars, log, sourceName, source, emitterRuns, branch,
                    extractorVars, alreadyVisited, emitted, pending, sent,
                    lineChannel, writerState, sink, structsRead, oneLevelDown,
                    templateRuns, javaVars >>

\* close(lineChannel)
CloseChannel ==
    /\ pc = "closeChan"
    /\ chanClosed' = TRUE
    /\ pc' = "closeWriter"
    /\ UNCHANGED << inputVars, log, sourceName, source, emitterRuns, branch,
                    extractorVars, alreadyVisited, emitted, pending, sent,
                    lineChannel, writerState, sink, structsRead, oneLevelDown,
                    templateRuns, javaVars >>

\* sWriter.close() / writer.close(): returns once the writer has drained
\* the closed channel.
WriterClose ==
    /\ pc = "closeWriter"
    /\ writerState = "done"
    /\ writerState' = "closed"
    /\ pc' = IF branch = "W" THEN "xmlInfo" ELSE "done"
    /\ UNCHANGED << inputVars, log, sourceName, source, emitterRuns, branch,
                    extractorVars, alreadyVisited, emitted, pending, sent,
                    lineChannel, chanClosed, sink, structsRead, oneLevelDown,
                    templateRuns, javaVars >>

\* The writer takes the next line off the channel and writes it out.
WriterReceive ==
    /\ writerState = "running"
    /\ lineChannel /= << >>
    /\ sink' = Append(sink, Head(lineChannel))
    /\ lineChannel' = Tail(lineChannel)
    /\ UNCHANGED << inputVars, mainVars, extractorVars, alreadyVisited, emitted,
                    pending, sent, chanClosed, writerState, structsRead,
                    oneLevelDown, templateRuns, javaVars >>

\* The writer's receive loop ends when the channel is closed and empty.
WriterFinish ==
    /\ writerState = "running"
    /\ lineChannel = << >>
    /\ chanClosed
    /\ writerState' = "done"
    /\ UNCHANGED << inputVars, mainVars, extractorVars, alreadyVisited, emitted,
                    pending, sent, lineChannel, chanClosed, sink, structsRead,
                    oneLevelDown, templateRuns, javaVars >>

capitalizeFirstLetter(s) ==
    CASE s = "a" -> "A"
      [] s = "b" -> "B"
      [] s = "root" -> "Root"
      [] OTHER -> s

XMLType(n) ==
    [XMLName |-> n.name, XMLNameUpper |-> capitalizeFirstLetter(n.name),
     XMLSpace |-> n.space]

\* The XMLTypes of one node's children, in each order a range can take.
ChildLists(ns, id) ==
    { [i \in 1..Len(p) |-> XMLType(ns[p[i]])] : p \in RangeOrders(ns[id].children) }

RECURSIVE ConcatChoices(_, _)
ConcatChoices(ns, outer) ==
    IF outer = << >> THEN { << >> }
    ELSE { a \o b : a \in ChildLists(ns, Head(outer)),
                    b \in ConcatChoices(ns, Tail(outer)) }

\* makeOneLevelDown(node): the children of node's children, appended in the
\* order the two nested ranges deliver them.
makeOneLevelDown(ns, node) ==
    UNION { ConcatChoices(ns, o) : o \in RangeOrders(ns[node].children) }

\* xt := XMLType{... ex.firstNode ...}; x := XmlInfo{OneLevelDownXML, Structs: sWriter.s}
\* ex.firstNode is nil when the document held no element.
BuildXmlInfo ==
    /\ pc = "xmlInfo"
    /\ IF firstNode = 0
       THEN /\ pc' = "panic"
            /\ UNCHANGED << structsRead, oneLevelDown >>
       ELSE /\ oneLevelDown' \in makeOneLevelDown(nodes, 1)
            /\ structsRead' = [read |-> TRUE, s |-> sink]
            /\ pc' = "template"
    /\ UNCHANGED << inputVars, log, sourceName, source, emitterRuns, branch,
                    extractorVars, alreadyVisited, emitted, pending, sent,
                    lineChannel, chanClosed, writerState, sink, templateRuns,
                    javaVars >>

\* t.Execute(os.Stdout, x)
TemplateExecute ==
    /\ pc = "template"
    /\ templateRuns' = templateRuns + 1
    /\ pc' = "done"
    /\ UNCHANGED << inputVars, log, sourceName, source, emitterRuns, branch,
                    extractorVars, alreadyVisited, emitted, pending, sent,
                    lineChannel, chanClosed, writerState, sink, structsRead,
                    oneLevelDown, javaVars >>

(* ------------------------------ Java mode ----------------------------- *)

\* Mutant of JavaRemoveAll: the directory is removed and never recreated.
JavaRemoveAll_skipsMkdir ==
    /\ pc = "J_remove"
    /\ baseDir' = "removed"
    /\ fsLog' = Append(fsLog, << "RemoveAll", "", "" >>)
    /\ pc' = "J_visitor"
    /\ UNCHANGED << inputVars, log, sourceName, source, emitterRuns, branch,
                    extractorVars, goVars, javaOrder, onlyChild >>

\* os.RemoveAll(baseJavaDir)
JavaRemoveAll ==
    /\ pc = "J_remove"
    /\ baseDir' = "removed"
    /\ fsLog' = Append(fsLog, << "RemoveAll", "", "" >>)
    /\ pc' = "J_mkdir"
    /\ UNCHANGED << inputVars, log, sourceName, source, emitterRuns, branch,
                    extractorVars, goVars, javaOrder, onlyChild >>

\* os.MkdirAll(javaDir+"/xml", 0755)
JavaMkdirAll ==
    /\ pc = "J_mkdir"
    /\ baseDir' = "recreated"
    /\ fsLog' = Append(fsLog, << "MkdirAll", "", "" >>)
    /\ pc' = "J_visitor"
    /\ UNCHANGED << inputVars, log, sourceName, source, emitterRuns, branch,
                    extractorVars, goVars, javaOrder, onlyChild >>

\* printJavaJaxbVisitor := PrintJavaJaxbVisitor{alreadyVisited: make(map[string]bool), ...}
\* var onlyChild *Node; the range over ex.root.children takes some order.
JavaNewVisitor ==
    /\ pc = "J_visitor"
    /\ alreadyVisited' = {}
    /\ onlyChild' = 0
    /\ javaOrder' \in RangeOrders(nodes[1].children)
    /\ pc' = "J_loop"
    /\ UNCHANGED << inputVars, log, sourceName, source, emitterRuns, branch,
                    extractorVars, emitted, pending, sent, lineChannel,
                    chanClosed, writerState, sink, structsRead, oneLevelDown,
                    templateRuns, baseDir, fsLog >>

\* The class files one Visit call writes.
ClassFiles(ns, seq) == [i \in 1..Len(seq) |-> << "class", ns[seq[i]].name, ns[seq[i]].space >>]

\* Mutant of JavaVisitChild: every Visit call starts from an empty
\* alreadyVisited set.
JavaVisitChild_freshVisited ==
    /\ pc = "J_loop"
    /\ javaOrder /= << >>
    /\ \E r \in VisitNode(nodes, Head(javaOrder), {}) :
         /\ emitted' = emitted \o r.seq
         /\ alreadyVisited' = r.visited
         /\ fsLog' = fsLog \o ClassFiles(nodes, r.seq)
    /\ onlyChild' = Head(javaOrder)
    /\ javaOrder' = Tail(javaOrder)
    /\ UNCHANGED << inputVars, mainVars, extractorVars, pending, sent,
                    lineChannel, chanClosed, writerState, sink, structsRead,
                    oneLevelDown, templateRuns, baseDir >>

\* One iteration: printJavaJaxbVisitor.Visit(child); onlyChild = child
JavaVisitChild ==
    /\ pc = "J_loop"
    /\ javaOrder /= << >>
    /\ \E r \in VisitNode(nodes, Head(javaOrder), alreadyVisited) :
         /\ emitted' = emitted \o r.seq
         /\ alreadyVisited' = r.visited
         /\ fsLog' = fsLog \o ClassFiles(nodes, r.seq)
    /\ onlyChild' = Head(javaOrder)
    /\ javaOrder' = Tail(javaOrder)
    /\ UNCHANGED << inputVars, mainVars, extractorVars, pending, sent,
                    lineChannel, chanClosed, writerState, sink, structsRead,
                    oneLevelDown, templateRuns, baseDir >>

\* printJavaJaxbMain(onlyChild.makeJavaType(namePrefix, ""), ...): onlyChild
\* is nil when the loop ran no iteration, and naming its type panics.
PrintJavaJaxbMain ==
    /\ pc = "J_loop"
    /\ javaOrder = << >>
    /\ IF onlyChild = 0
       THEN /\ pc' = "panic"
            /\ fsLog' = fsLog
       ELSE /\ pc' = "J_pkg"
            /\ fsLog' = Append(fsLog, << "Main", nodes[onlyChild].name,
                                         nodes[onlyChild].space >>)
    /\ UNCHANGED << inputVars, log, sourceName, source, emitterRuns, branch,
                    extractorVars, goVars, javaOrder, onlyChild, baseDir >>

\* printPackageInfo(onlyChild, ...): package-info.java is written only for a
\* namespaced node; a failed os.Create panics.
PrintPackageInfo ==
    /\ pc = "J_pkg"
    /\ \/ /\ nodes[onlyChild].space = ""
          /\ pc' = "J_pom"
          /\ UNCHANGED << fsLog, log >>
       \/ /\ nodes[onlyChild].space /= ""
          /\ pc' = "J_pom"
          /\ fsLog' = Append(fsLog, << "package-info", nodes[onlyChild].space, "" >>)
          /\ log' = log
       \/ /\ nodes[onlyChild].space /= ""
          /\ pc' = "panic"
          /\ fsLog' = fsLog
          /\ log' = Append(log, "Problem creating file: package-info.java")
    /\ UNCHANGED << inputVars, sourceName, source, emitterRuns, branch,
                    extractorVars, goVars, javaOrder, onlyChild, baseDir >>

\* printMavenPom(baseJavaDir+"/pom.xml", javaAppName); a failed os.Create panics.
PrintMavenPom ==
    /\ pc = "J_pom"
    /\ \/ /\ pc' = "done"
          /\ fsLog' = Append(fsLog, << "pom", "", "" >>)
          /\ log' = log
       \/ /\ pc' = "panic"
          /\ fsLog' = fsLog
          /\ log' = Append(log, "Problem creating file: pom.xml")
    /\ UNCHANGED << inputVars, sourceName, source, emitterRuns, branch,
                    extractorVars, goVars, javaOrder, onlyChild, baseDir >>

(* --------------------------- specifications --------------------------- *)

Next ==
    \/ HandleParameters
    \/ CheckArgs
    \/ ResolveSourceName
    \/ MakeSourceReader
    \/ HandleStartElement
    \/ HandleCharData
    \/ HandleEndElement
    \/ EndOfStream
    \/ SelectEmitter
    \/ OpenWriter
    \/ VisitBegin
    \/ VisitorSend
    \/ VisitReturn
    \/ CloseChannel
    \/ WriterClose
    \/ WriterReceive
    \/ WriterFinish
    \/ BuildXmlInfo
    \/ TemplateExecute
    \/ JavaRemoveAll
    \/ JavaMkdirAll
    \/ JavaNewVisitor
    \/ JavaVisitChild
    \/ PrintJavaJaxbMain
    \/ PrintPackageInfo
    \/ PrintMavenPom

\* main on every command line and every small document.
Spec == Init /\ [][Next]_vars

\* A command line that selects exactly one mode and names one file.
OneMode(modes) ==
    /\ \E m \in modes :
         /\ codeGenConvert = (m = "W")
         /\ structsToStdout = (m = "G")
         /\ writeJava = (m = "J")
    /\ url = FALSE
    /\ readFromStandardIn = FALSE
    /\ args = << "f1" >>

\* Each mode on every document of tags of at most MaxEvents events.
EmitInit ==
    /\ OneMode({ "W", "G", "J" })
    /\ useType = TRUE
    /\ doc \in DocsUpTo(MaxEvents, Events)
    /\ linesPerStruct = 1
    /\ Start

EmitSpec == EmitInit /\ [][Next]_vars

\* The main goroutine's steps and the writer goroutine's steps.
MainStep ==
    \/ HandleParameters \/ CheckArgs \/ ResolveSourceName \/ MakeSourceReader
    \/ HandleStartElement \/ HandleCharData \/ HandleEndElement \/ EndOfStream
    \/ SelectEmitter \/ OpenWriter \/ VisitBegin \/ VisitorSend \/ VisitReturn
    \/ CloseChannel \/ WriterClose \/ BuildXmlInfo \/ TemplateExecute
    \/ JavaRemoveAll \/ JavaMkdirAll \/ JavaNewVisitor \/ JavaVisitChild
    \/ PrintJavaJaxbMain \/ PrintPackageInfo \/ PrintMavenPom
WriterStep == WriterReceive \/ WriterFinish

\* Each mode on a short document whose structs render as one line or as
\* enough lines to fill the line channel.
ChanInit ==
    /\ OneMode({ "W", "G", "J" })
    /\ useType = TRUE
    /\ doc \in DocsUpTo(MaxEventsChan, Events)
    /\ linesPerStruct \in { 1, MaxStructLines - 1, MaxStructLines }
    /\ Start

\* The Go scheduler runs every runnable goroutine: both are weakly fair.
FairChanSpec ==
    ChanInit /\ [][Next]_vars /\ WF_vars(MainStep) /\ WF_vars(WriterStep)

\* <b> <a>t1</a> ... <a>tn</a> </b>: the texts ts given to the identity a.
RECURSIVE TextElements(_)
TextElements(ts) ==
    IF ts = << >> THEN << >>
    ELSE << StartEvent(<< "a", "" >>), TextEvent(Head(ts)), EndEvent >>
             \o TextElements(Tail(ts))
TypeDoc(ts) == << StartEvent(<< "b", "" >>) >> \o TextElements(ts) \o << EndEvent >>

TextSeqs == UNION { [1..k -> Texts] : k \in 0..MaxTexts }

\* The Extractor, with and without -t, on every document that gives one
\* identity a sequence of sample texts.
TypeInit ==
    /\ OneMode({ "G" })
    /\ useType \in BOOLEAN
    /\ doc \in { TypeDoc(ts) : ts \in TextSeqs }
    /\ linesPerStruct = 1
    /\ Start

TypeNext ==
    \/ HandleParameters
    \/ CheckArgs
    \/ ResolveSourceName
    \/ MakeSourceReader
    \/ HandleStartElement
    \/ HandleCharData
    \/ HandleEndElement
    \/ EndOfStream

TypeSpec == TypeInit /\ [][TypeNext]_vars

(* ------------------------------ properties ---------------------------- *)

\* How often the identity tag was started among the first n events.
Occurrences(tag, n) ==
    Cardinality({ i \in 1..n : doc[i].type = "start"
                               /\ << doc[i].name, doc[i].space >> = tag })

\* The tags left open after the first n events.
RECURSIVE OpenTags(_)
OpenTags(n) ==
    IF n = 0 THEN << >>
    ELSE LET e == doc[n]
             prev == OpenTags(n - 1)
         IN  IF e.type = "start" THEN Append(prev, << e.name, e.space >>)
             ELSE IF e.type = "end" /\ prev /= << >>
                  THEN SubSeq(prev, 1, Len(prev) - 1)
                  ELSE prev

\* The nodes that hold a child entry for node id.
Parents(id) == { p \in 1..Len(nodes) : id \in Range(nodes[p].children) }

\* Some emission step has happened.
EmissionStarted ==
    \/ emitted /= << >>
    \/ sent /= << >>
    \/ sink /= << >>
    \/ templateRuns > 0
    \/ fsLog /= << >>
    \/ baseDir /= "original"
    \/ writerState /= "unopened"
    \/ branch /= "none"

\* C1: when zero or more than one of -W, -G, -J is set, the run stops with a
\* configuration error before inference: no source is made and extract is
\* never called.
C1_BadModeCountStopsBeforeInference ==
    countNumberOfBoolsSet(outputs) /= 1 =>
        /\ source.kind = "none"
        /\ pc /= "extract"
        /\ extractErr = "pending"

\* C2: in every run whose extraction succeeded, exactly one emitter branch
\* of the switch is executed: never none, never two.
C2_ExactlyOneEmitterRuns ==
    /\ emitterRuns <= 1
    /\ (extractErr = "nil" /\ pc \in { "done", "panic" }) => emitterRuns = 1

\* C3: no emission step happens before extract has returned nil, and a run
\* whose extract returned an error ends fatally with no emission step at all.
C3_NoEmissionBeforeExtractReturns ==
    /\ EmissionStarted => extractErr = "nil"
    /\ extractErr \notin { "pending", "nil" } => ~EmissionStarted /\ pc = "fatal"

\* C3 witness: the stream ended with an element still open; the run is over
\* and nothing was emitted.
C3_Witness ==
    /\ pc = "fatal"
    /\ extractErr = "unterminated"
    /\ pos = Len(doc)
    /\ Len(stack) > 1

\* C4: a source is made only when exactly one of path argument, -u and -c
\* is selected, and then it is the matching source with the name that
\* belongs to it; a missing path without -c stops at the usage message.
\* (Read in the code's favour: positional arguments given with -c are taken
\* as ignored, not as a second source.)
C4_ExactlyOneInputSource ==
    /\ source.kind /= "none" =>
         \/ /\ Len(args) = 1 /\ ~url /\ ~readFromStandardIn
            /\ source = [kind |-> "FileSource", name |-> Abs(args[1])]
         \/ /\ Len(args) = 1 /\ url /\ ~readFromStandardIn
            /\ source = [kind |-> "UrlSource", name |-> args[1]]
         \/ /\ ~url /\ readFromStandardIn
            /\ source = [kind |-> "StdinSource", name |-> ""]
    /\ (Len(args) = 0 /\ ~readFromStandardIn) =>
         /\ pc \in { "start", "checkArgs", "usage" }
         /\ source.kind = "none"

\* C5: after any number of events, each identity (name, namespace) that was
\* started N > 0 times has exactly one Element Node, whose occurrenceCount is
\* N, wherever it was nested; the stack holds the nodes of the open tags, each
\* a child entry of the frame below it.
C5_MergeIdempotence ==
    /\ \A i, j \in 2..Len(nodes) : nk(nodes[i]) = nk(nodes[j]) => i = j
    /\ \A tag \in Tags :
         LET ids == { i \in 2..Len(nodes) : nk(nodes[i]) = tag } IN
         IF Occurrences(tag, pos) = 0 THEN ids = {}
         ELSE \E i \in ids : nodes[i].count = Occurrences(tag, pos)
    /\ [k \in 1..Len(stack) |-> nk(nodes[stack[k]])]
         = << nk(RootNode) >> \o OpenTags(pos)
    /\ \A k \in 2..Len(stack) : stack[k] \in Range(nodes[stack[k - 1]].children)
    /\ \A p \in 1..Len(nodes) : \A a, b \in 1..Len(nodes[p].children) :
         a /= b => nodes[p].children[a] /= nodes[p].children[b]

\* C5 witness: the walk is over and some identity that occurred at least
\* twice is nested under two different parents.
C5_Witness ==
    /\ pc = "switch"
    /\ \E i \in 2..Len(nodes) :
         nodes[i].count >= 2 /\ Cardinality(Parents(i)) >= 2

\* The texts of the text events among the first n events.
RECURSIVE TextsSeen(_)
TextsSeen(n) ==
    IF n = 0 THEN << >>
    ELSE IF doc[n].type = "text" THEN Append(TextsSeen(n - 1), doc[n].text)
    ELSE TextsSeen(n - 1)

\* The type the conservative merge should end with for classes cs.
ExpectedType(cs) ==
    IF cs = << >> THEN "absent"
    ELSE IF \E i \in 1..Len(cs) : cs[i] = "string" THEN "string"
    ELSE IF \E i, j \in 1..Len(cs) : cs[i] /= cs[j] THEN "string"
    ELSE cs[1]

RECURSIVE FoldMerge(_, _)
FoldMerge(running, cs) ==
    IF cs = << >> THEN running
    ELSE FoldMerge(MergeType(running, Head(cs)), Tail(cs))

\* The running type of the identity a of a TypeDoc.
TypeOfA ==
    LET ids == { i \in 2..Len(nodes) : nk(nodes[i]) = << "a", "" >> } IN
    IF ids = {} THEN "absent" ELSE nodes[CHOOSE i \in ids : TRUE].type

C6_Final ==
    useType =>
        LET cs == [i \in 1..Len(TextsSeen(pos)) |-> Classify(TextsSeen(pos)[i])] IN
        /\ TypeOfA = ExpectedType(cs)
        /\ \A p \in RangeOrders([i \in 1..Len(cs) |-> i]) :
             FoldMerge("absent", [i \in 1..Len(cs) |-> cs[p[i]]]) = TypeOfA

C6_Monotone ==
    \A i \in 1..Len(nodes) :
        nodes'[i].type /= nodes[i].type =>
            nodes[i].type = "absent" \/ nodes'[i].type = "string"

\* C6: with type inference on, the type of an identity after any sequence of
\* texts is string if some text classifies as string or two classify
\* differently, else the common class; every permutation of the texts gives
\* the same type; and a running type, once set, only ever changes to string.
C6_ConservativeMerge == [](C6_Final) /\ [][C6_Monotone]_vars

\* C6 witness: the walk is over; two texts of different non-string classes
\* were merged into string.
C6_Witness ==
    /\ pc = "switch"
    /\ useType
    /\ TypeOfA = "string"
    /\ Len(TextsSeen(pos)) >= 2
    /\ \A i \in 1..Len(TextsSeen(pos)) : Classify(TextsSeen(pos)[i]) /= "string"

\* C7: an emission emits at most one definition per identity, and a finished
\* emission has emitted exactly one for every Element Node: all of them from
\* Visit(ex.root) in the struct modes, all but the root from the Visit calls
\* of the Java loop, which share one alreadyVisited set.
C7_VisitOnce ==
    /\ \A i, j \in 1..Len(emitted) :
         i /= j => nk(nodes[emitted[i]]) /= nk(nodes[emitted[j]])
    /\ (branch \in { "W", "G" } /\ pc \notin { "open", "visit" }) =>
         Range(emitted) = 1..Len(nodes)
    /\ (branch = "J" /\ pc \in { "J_pkg", "J_pom", "done" }) =>
         Range(emitted) = 2..Len(nodes)

\* C7 witness: a finished Java emission of a root with two children, one of
\* whose nodes is a child entry of two parents.
C7_Witness ==
    /\ pc = "done"
    /\ branch = "J"
    /\ Len(nodes[1].children) >= 2
    /\ \E i \in Range(emitted) : Cardinality(Parents(i)) >= 2

ChildTypesInOrder(ns, id) ==
    [i \in 1..Len(ns[id].children) |-> XMLType(ns[ns[id].children[i]])]

RECURSIVE ConcatInOrder(_, _)
ConcatInOrder(ns, outer) ==
    IF outer = << >> THEN << >>
    ELSE ChildTypesInOrder(ns, Head(outer)) \o ConcatInOrder(ns, Tail(outer))

\* C8: what is emitted does not depend on the order the children are ranged
\* over: the Java entry point is the child the insertion order visits last,
\* and the one-level-down list is the one the insertion order gives.
C8_EmissionIndependentOfRangeOrder ==
    /\ (branch = "J" /\ pc \in { "J_pkg", "J_pom", "done" }) =>
         onlyChild = nodes[1].children[Len(nodes[1].children)]
    /\ structsRead.read => oneLevelDown = ConcatInOrder(nodes, nodes[1].children)

IsFileWrite(op) == op[1] \in { "class", "Main", "package-info", "pom" }

\* What C9 says of every run, whether or not it failed.
C9_ClearedAndRecreated ==
    /\ baseDir /= "original" => branch = "J" /\ extractErr = "nil"
    /\ fsLog /= << >> => fsLog[1] = << "RemoveAll", "", "" >>
    /\ \A i \in 1..Len(fsLog) :
         IsFileWrite(fsLog[i]) =>
             i > 2 /\ fsLog[2] = << "MkdirAll", "", "" >> /\ baseDir = "recreated"
    /\ (branch = "J" /\ pc \in { "J_visitor", "J_loop", "J_pkg", "J_pom", "done" }) =>
         baseDir = "recreated"
    /\ branch \in { "W", "G", "none" } => baseDir = "original" /\ fsLog = << >>

\* C9 as stated: the base directory is cleared and recreated in a Java-mode
\* run, after extraction and before any file is written, and is left
\* unchanged in the struct modes and on any failed run.
C9_UnchangedOnAnyFailedRun ==
    /\ C9_ClearedAndRecreated
    /\ pc \in { "usage", "fatal", "panic" } => baseDir = "original"

\* C9 amended: as C9, but only the runs that fail before the Java branch is
\* entered (usage, a fatal source or extraction error, a panic of the
\* conversion-code branch) leave the base directory unchanged.
C9_UnchangedUnlessJavaBranch ==
    /\ C9_ClearedAndRecreated
    /\ (pc \in { "usage", "fatal", "panic" } /\ branch /= "J") => baseDir = "original"

\* C9 witness: a finished Java-mode run that wrote the pom after clearing
\* and recreating the directory.
C9_Witness ==
    /\ pc = "done"
    /\ branch = "J"
    /\ fsLog[Len(fsLog)] = << "pom", "", "" >>
    /\ \E i \in 1..Len(fsLog) : fsLog[i][1] = "class"

C10_Protocol ==
    /\ sent /= << >> => writerState /= "unopened"
    /\ chanClosed => pending = << >> /\ pc \notin { "open", "visit", "send" }
    /\ writerState = "closed" => chanClosed /\ sink = sent /\ lineChannel = << >>
    /\ structsRead.read => writerState = "closed" /\ structsRead.s = sent
    /\ ~(pc = "panic" /\ pending /= << >>)
    /\ Len(lineChannel) <= LineChannelCap
    /\ sent = sink \o lineChannel
    /\ (pc = "send" /\ pending /= << >> /\ Len(lineChannel) = LineChannelCap) =>
         writerState = "running"

=============================================================================
